---- MODULE Spec2Model ----
\* A model of passkeep's PasswordGenerator (src/passkeep/src/lib.rs): the
\* consuming builder (new, with_*_chars, with_symbols, with_numbers,
\* with_length) and the one-shot generate().
\*
\* Characters are modelled by their ASCII code points, so that an alphabet is a
\* sequence of integers and char::is_lowercase etc. are range tests.
EXTENDS Integers, Sequences, FiniteSets, TLC

\* ---------------------------------------------------------------- bounds

\* The largest argument given to with_length; larger than the smallest pool
\* (the ten digits), so that sampling must repeat characters.
MaxLen == 11
\* The number of configuration calls chained before generate().
MaxCalls == 4
\* thread_rng() yields one of the streams 0..MaxSeed.
MaxSeed == 1
\* The distance between two consecutive values of one stream.
RngStride == 13

\* The arguments with_length is called with.
LengthInputs == {0, 1, MaxLen}

\* ------------------------------------------------------- program constants

\* "abcdefghijklmnopqrstuvwxyz"
LOWERCASE_DATA == [i \in 1..26 |-> 96 + i]
\* "ABCDEFGHIJKLMNOPQRSTUVWXYZ"
UPPERCASE_DATA == [i \in 1..26 |-> 64 + i]
\* "!@#$%^&*()_+-={}[]\":;'?><,./~`|\\"
SYMBOLS ==
    << 33, 64, 35, 36, 37, 94, 38, 42, 40, 41, 95, 43, 45, 61, 123, 125,
       91, 93, 34, 58, 59, 39, 63, 62, 60, 44, 46, 47, 126, 96, 124, 92 >>
\* "1234567890"
NUMBERS == << 49, 50, 51, 52, 53, 54, 55, 56, 57, 48 >>

\* The flags of PasswordContents.
LOWERCASE == "LOWERCASE"
UPPERCASE == "UPPERCASE"
SYMBOLS_FLAG == "SYMBOLS"
NUMBERS_FLAG == "NUMBERS"
PasswordContents == {LOWERCASE, UPPERCASE, SYMBOLS_FLAG, NUMBERS_FLAG}

\* PasswordGenerationError
MissingContent == "MissingContent"
ZeroLengthPassword == "ZeroLengthPassword"

\* ------------------------------------------------------------ library types

\* Option<NonZeroUsize>: None is the empty sequence, Some(n) is <<n>>.
None == << >>
Some(n) == << n >>
is_none(o) == o = None
unwrap(o) == o[1]

\* NonZeroUsize::new(n) and NonZeroUsize::try_from(n).ok(): None exactly for 0.
NonZeroUsize_new_clamped(n) == Some(IF n = 0 THEN 1 ELSE n)
NonZeroUsize_new(n) == IF n = 0 THEN None ELSE Some(n)

\* bitflags: empty(), is_empty(), contains(flag) and set(flag, value).
empty == {}
is_empty(flags) == flags = {}
contains(flags, flag) == flag \in flags
set_toggle(flags, flag, value) ==
    IF flag \in flags THEN flags \ {flag} ELSE flags \cup {flag}
set(flags, flag, value) ==
    IF value THEN flags \cup {flag} ELSE flags \ {flag}

\* Result<String, PasswordGenerationError>; Pending before generate() returns.
Pending == [tag |-> "Pending", err |-> "", value |-> << >>]
Err(e) == [tag |-> "Err", err |-> e, value |-> << >>]
Ok(s) == [tag |-> "Ok", err |-> "", value |-> s]

\* The generator before thread_rng() is called.
NoRng == -1

\* ------------------------------------------------------------------- state

VARIABLES
    contents,    \* self.contents: the set of enabled flags
    length,      \* self.length: Option<NonZeroUsize>
    pc,          \* "Configuring", "Sampling" (inside generate) or "Consumed"
    rng,         \* the thread-local generator's state, NoRng before line 82
    dictionary,  \* generate's local `dictionary`
    password,    \* generate's local `password`
    i,           \* the number of iterations of the loop of line 106 so far
    draws,       \* the number of choose() calls made on the generator
    result,      \* what generate() returned
    calls        \* the configuration calls made so far, in order

vars ==
    << contents, length, pc, rng, dictionary, password, i, draws, result, calls >>

\* A configuration call as recorded in `calls`.
Call(op, arg) == [op |-> op, arg |-> arg]

\* PasswordGenerator::new()
New_lengthUnset == [contents |-> empty, length |-> None]
New == [contents |-> empty, length |-> NonZeroUsize_new(8)]

Init ==
    /\ contents = New.contents
    /\ length = New.length
    /\ pc = "Configuring"
    /\ rng = NoRng
    /\ dictionary = << >>
    /\ password = << >>
    /\ i = 0
    /\ draws = 0
    /\ result = Pending
    /\ calls = << >>

\* ------------------------------------------------------ configuration calls

\* The builder methods take `self` by value: they can only be called on a
\* generator that generate() has not consumed.
Configure(op, arg, newContents, newLength) ==
    /\ pc = "Configuring"
    /\ Len(calls) < MaxCalls
    /\ contents' = newContents
    /\ length' = newLength
    /\ calls' = Append(calls, Call(op, arg))
    /\ UNCHANGED << pc, rng, dictionary, password, i, draws, result >>

with_lowercase_chars ==
    Configure("with_lowercase_chars", 0, set(contents, LOWERCASE, TRUE), length)

with_uppercase_chars ==
    Configure("with_uppercase_chars", 0, set(contents, UPPERCASE, TRUE), length)

with_symbols ==
    Configure("with_symbols", 0, set(contents, SYMBOLS_FLAG, TRUE), length)

with_numbers ==
    Configure("with_numbers", 0, set(contents, NUMBERS_FLAG, TRUE), length)

with_length(n) ==
    Configure("with_length", n, contents, NonZeroUsize_new(n))

\* ---------------------------------------------------------------- generate

\* Lines 73-80: the two early returns, in the order of the code; "" when the
\* configuration passes both.
Validate_contentsFirst(flags, len) ==
    IF is_empty(flags) THEN MissingContent
    ELSE IF is_none(len) THEN ZeroLengthPassword
    ELSE ""
Validate_variantsSwapped(flags, len) ==
    IF is_none(len) THEN MissingContent
    ELSE IF is_empty(flags) THEN ZeroLengthPassword
    ELSE ""
Validate(flags, len) ==
    IF is_none(len) THEN ZeroLengthPassword
    ELSE IF is_empty(flags) THEN MissingContent
    ELSE ""

\* Lines 84-103: the dictionary, one push_str per enabled flag.
BuildDictionary_allClasses(flags) ==
    LOWERCASE_DATA \o UPPERCASE_DATA \o SYMBOLS \o NUMBERS
BuildDictionary_numbersFirst(flags) ==
    (IF contains(flags, LOWERCASE) THEN LOWERCASE_DATA ELSE << >>)
    \o (IF contains(flags, UPPERCASE) THEN UPPERCASE_DATA ELSE << >>)
    \o (IF contains(flags, NUMBERS_FLAG) THEN NUMBERS ELSE << >>)
    \o (IF contains(flags, SYMBOLS_FLAG) THEN SYMBOLS ELSE << >>)
BuildDictionary(flags) ==
    (IF contains(flags, LOWERCASE) THEN LOWERCASE_DATA ELSE << >>)
    \o (IF contains(flags, UPPERCASE) THEN UPPERCASE_DATA ELSE << >>)
    \o (IF contains(flags, SYMBOLS_FLAG) THEN SYMBOLS ELSE << >>)
    \o (IF contains(flags, NUMBERS_FLAG) THEN NUMBERS ELSE << >>)

\* dictionary.chars().choose(&mut rng): the element the generator's current
\* value selects, and the generator's next value. rand's thread_rng is outside
\* the repository: it is modelled as a family of streams, one per seed, that
\* step through the dictionary with replacement; choose() on the non-empty
\* dictionary always yields one of its elements.
choose(dict, r) == dict[(r % Len(dict)) + 1]
next_rng(r) == r + RngStride

\* The range 0..self.length.unwrap().get() of line 106 has another element.
LoopContinues_offByOne(k, len) == k + 1 < unwrap(len)
LoopContinues(k, len) == k < unwrap(len)

\* generate(self), lines 72-105: the generator is moved into the call; an
\* invalid configuration returns at once, a valid one gets the generator, the
\* dictionary and the empty password.
GenerateStart_borrowsSelf ==
    /\ pc = "Configuring"
    /\ IF Validate(contents, length) # ""
       THEN /\ result' = Err(Validate(contents, length))
            /\ pc' = "Configuring"
            /\ UNCHANGED << rng, dictionary, password, i, draws >>
       ELSE /\ \E seed \in 0..MaxSeed : rng' = seed
            /\ dictionary' = BuildDictionary(contents)
            /\ password' = << >>
            /\ i' = 0
            /\ draws' = 0
            /\ pc' = "Sampling"
            /\ UNCHANGED result
    /\ UNCHANGED << contents, length, calls >>
GenerateStart ==
    /\ pc = "Configuring"
    /\ IF Validate(contents, length) # ""
       THEN /\ result' = Err(Validate(contents, length))
            /\ pc' = "Consumed"
            /\ UNCHANGED << rng, dictionary, password, i, draws >>
       ELSE /\ \E seed \in 0..MaxSeed : rng' = seed
            /\ dictionary' = BuildDictionary(contents)
            /\ password' = << >>
            /\ i' = 0
            /\ draws' = 0
            /\ pc' = "Sampling"
            /\ UNCHANGED result
    /\ UNCHANGED << contents, length, calls >>

\* Lines 106-108: one iteration of the loop.
GenerateChoose_withoutReplacement ==
    /\ pc = "Sampling"
    /\ LoopContinues(i, length)
    /\ IF dictionary = << >>
       THEN UNCHANGED << password, dictionary, rng, draws >>
       ELSE /\ password' = Append(password, choose(dictionary, rng))
            /\ draws' = draws + 1
            /\ dictionary' =
                   SelectSeq(dictionary, LAMBDA c : c # choose(dictionary, rng))
            /\ rng' = next_rng(rng)
    /\ i' = i + 1
    /\ UNCHANGED << contents, length, pc, result, calls >>
GenerateChoose ==
    /\ pc = "Sampling"
    /\ LoopContinues(i, length)
    /\ password' = Append(password, choose(dictionary, rng))
    /\ rng' = next_rng(rng)
    /\ draws' = draws + 1
    /\ i' = i + 1
    /\ UNCHANGED << contents, length, pc, dictionary, result, calls >>

\* Line 109: Ok(password) once the range is exhausted.
GenerateReturn ==
    /\ pc = "Sampling"
    /\ ~LoopContinues(i, length)
    /\ result' = Ok(password)
    /\ pc' = "Consumed"
    /\ UNCHANGED << contents, length, rng, dictionary, password, i, draws, calls >>

Next ==
    \/ with_lowercase_chars
    \/ with_uppercase_chars
    \/ with_symbols
    \/ with_numbers
    \/ \E n \in LengthInputs : with_length(n)
    \/ GenerateStart
    \/ GenerateChoose
    \/ GenerateReturn

Spec == Init /\ [][Next]_vars

\* ------------------------------------------------- the history of the calls

\* The flag a configuration call enables.
FlagOf(op) ==
    CASE op = "with_lowercase_chars" -> {LOWERCASE}
      [] op = "with_uppercase_chars" -> {UPPERCASE}
      [] op = "with_symbols" -> {SYMBOLS_FLAG}
      [] op = "with_numbers" -> {NUMBERS_FLAG}
      [] OTHER -> {}

\* The classes enabled somewhere in a sequence of calls.
EnabledIn(cs) == UNION {FlagOf(cs[k].op) : k \in 1..Len(cs)}

\* The positions of the with_length calls of a sequence of calls.
LengthCalls(cs) == {k \in 1..Len(cs) : cs[k].op = "with_length"}

\* The argument of the last with_length call, 8 when there is none.
LastLength(cs) ==
    IF LengthCalls(cs) = {} THEN 8
    ELSE cs[CHOOSE k \in LengthCalls(cs) : \A m \in LengthCalls(cs) : m <= k].arg

\* The characters of a sequence.
Chars(s) == {s[k] : k \in 1..Len(s)}

\* Membership of a character in a class, as the tests decide it:
\* char::is_lowercase, char::is_uppercase, SYMBOLS.contains, char::is_numeric.
InClass(ch, flag) ==
    CASE flag = LOWERCASE -> ch \in 97..122
      [] flag = UPPERCASE -> ch \in 65..90
      [] flag = SYMBOLS_FLAG -> ch \in Chars(SYMBOLS)
      [] flag = NUMBERS_FLAG -> ch \in 48..57

\* The literal alphabet of a class and the classes in the order of the pool.
Alphabet(flag) ==
    CASE flag = LOWERCASE -> LOWERCASE_DATA
      [] flag = UPPERCASE -> UPPERCASE_DATA
      [] flag = SYMBOLS_FLAG -> SYMBOLS
      [] flag = NUMBERS_FLAG -> NUMBERS
AlphabetSize(flag) ==
    CASE flag = LOWERCASE -> 26
      [] flag = UPPERCASE -> 26
      [] flag = SYMBOLS_FLAG -> 32
      [] flag = NUMBERS_FLAG -> 10
PoolOrder == << LOWERCASE, UPPERCASE, SYMBOLS_FLAG, NUMBERS_FLAG >>

RECURSIVE PoolOf(_, _)
PoolOf(flags, k) ==
    IF k > Len(PoolOrder) THEN << >>
    ELSE (IF PoolOrder[k] \in flags THEN Alphabet(PoolOrder[k]) ELSE << >>)
         \o PoolOf(flags, k + 1)

RECURSIVE SumSizes(_)
SumSizes(flags) ==
    IF flags = {} THEN 0
    ELSE LET f == CHOOSE x \in flags : TRUE
         IN AlphabetSize(f) + SumSizes(flags \ {f})

\* ------------------------------------------------------------------ claims

\* C1: a configuration with length L > 0 and at least one class enabled makes
\* generate() return Ok with a password of exactly L characters, also when L
\* exceeds the size of the pool.
C1_ValidConfigurationYieldsLength ==
    (pc = "Consumed" /\ ~is_none(length) /\ ~is_empty(contents))
        => /\ result.tag = "Ok"
           /\ Len(result.value) = unwrap(length)

\* C1 witness: the ten digits alone, sampled MaxLen > 10 times.
C1_Witness ==
    /\ pc = "Consumed"
    /\ contents = {NUMBERS_FLAG}
    /\ result.tag = "Ok"
    /\ Len(result.value) = MaxLen
    /\ Len(result.value) > Len(dictionary)

\* C2: when the last with_length call had argument 0, generate() returns
\* ZeroLengthPassword whatever classes are enabled, also when none is.
C2_ZeroLengthFirst ==
    (pc = "Consumed" /\ LengthCalls(calls) # {} /\ LastLength(calls) = 0)
        => result = Err(ZeroLengthPassword)

\* C2 witness: length 0 and no class enabled reports ZeroLengthPassword.
C2_Witness ==
    /\ pc = "Consumed"
    /\ LengthCalls(calls) # {}
    /\ LastLength(calls) = 0
    /\ contents = {}
    /\ result = Err(ZeroLengthPassword)

\* C3 as stated: with no class enabled generate() returns MissingContent,
\* regardless of the configured length.
C3_Original ==
    (pc = "Consumed" /\ is_empty(contents)) => result = Err(MissingContent)

\* C3 amended: with no class enabled and a configured length that is not
\* zero, generate() returns MissingContent.
C3_MissingContentWhenLengthValid ==
    (pc = "Consumed" /\ is_empty(contents) /\ ~is_none(length))
        => result = Err(MissingContent)

\* C3 witness: no class and an explicitly set positive length.
C3_Witness ==
    /\ pc = "Consumed"
    /\ is_empty(contents)
    /\ length = Some(MaxLen)
    /\ result = Err(MissingContent)

\* C4: every character of a generated password belongs to the class of some
\* enabled flag and to the class of no flag that is not enabled; with all four
\* flags the characters come from a set of 94 characters.
C4_CharactersFromEnabledClasses ==
    result.tag = "Ok" =>
        /\ \A ch \in Chars(result.value) :
              /\ \E f \in contents : InClass(ch, f)
              /\ \A f \in PasswordContents \ contents : ~InClass(ch, f)
        /\ contents = PasswordContents =>
              /\ Chars(result.value) \subseteq Chars(dictionary)
              /\ Cardinality(Chars(dictionary)) = 94

\* C4 witness: a password of a proper subset of the classes that holds a
\* character of each of them.
C4_Witness ==
    /\ result.tag = "Ok"
    /\ contents = {LOWERCASE, SYMBOLS_FLAG}
    /\ \A f \in contents : \E ch \in Chars(result.value) : InClass(ch, f)

\* C5: a run that returns an error has created no generator, made no draw and
\* appended no character; nothing is returned while sampling; a run that
\* returns Ok has made exactly L draws and returns no fewer than L characters.
C5_AllOrNothing ==
    /\ result.tag = "Err" => (rng = NoRng /\ draws = 0 /\ password = << >>)
    /\ pc = "Sampling" => result = Pending
    /\ result.tag = "Ok" =>
          /\ draws = unwrap(length)
          /\ Len(result.value) >= unwrap(length)

\* C5 witness: a validation error returned on an explicitly configured
\* generator, with nothing drawn.
C5_Witness ==
    /\ pc = "Consumed"
    /\ result.tag = "Err"
    /\ Len(calls) > 0
    /\ draws = 0
    /\ rng = NoRng

\* C6: a new generator has no class and length 8; generate() on it returns
\* MissingContent; with a class enabled and with_length never called
\* generate() returns exactly 8 characters.
C6_Defaults ==
    /\ calls = << >> => (contents = {} /\ length = Some(8))
    /\ (pc = "Consumed" /\ calls = << >>) => result = Err(MissingContent)
    /\ (pc = "Consumed" /\ LengthCalls(calls) = {} /\ EnabledIn(calls) # {})
          => (result.tag = "Ok" /\ Len(result.value) = 8)

\* C6 witness: classes enabled, with_length never called, 8 characters.
C6_Witness ==
    /\ pc = "Consumed"
    /\ Len(calls) > 0
    /\ LengthCalls(calls) = {}
    /\ result.tag = "Ok"
    /\ Len(result.value) = 8

\* C7 as stated: generate() returns ZeroLengthPassword whenever the length is
\* zero or with_length was never called with a positive argument.
C7_Original ==
    (pc = "Consumed"
        /\ (is_none(length)
            \/ \A k \in LengthCalls(calls) : calls[k].arg = 0))
        => result = Err(ZeroLengthPassword)

\* C7 amended: generate() returns ZeroLengthPassword exactly when the last
\* with_length call had argument 0; when with_length was never called the
\* length is 8 and generate() does not return ZeroLengthPassword.
C7_ZeroLengthIffLastLengthZero ==
    pc = "Consumed" =>
        /\ result = Err(ZeroLengthPassword)
              <=> (LengthCalls(calls) # {} /\ LastLength(calls) = 0)
        /\ LengthCalls(calls) = {} => result # Err(ZeroLengthPassword)

\* C7 witness: with_length never called and generate() has returned.
C7_Witness ==
    /\ pc = "Consumed"
    /\ LengthCalls(calls) = {}
    /\ Len(calls) > 0
    /\ result # Err(ZeroLengthPassword)

\* C8: configuration changes happen only in Configuring; generate() sets the
\* result once, on reaching Consumed, on success and on failure; nothing
\* changes after Consumed.
C8_Lifecycle ==
    [][ /\ pc = "Consumed" => UNCHANGED vars
        /\ (contents' # contents \/ length' # length \/ calls' # calls)
              => (pc = "Configuring" /\ pc' = "Configuring")
        /\ result' # result => (result = Pending /\ pc' = "Consumed")
        /\ pc' # pc =>
              /\ pc # "Consumed"
              /\ pc' # "Configuring"
              /\ (pc' = "Consumed") <=> (result' # Pending)
      ]_vars

\* C8 witness: a configured generator consumed by a failing generate().
C8_Witness ==
    /\ pc = "Consumed"
    /\ result.tag = "Err"
    /\ Len(calls) > 0

\* C9: on success the pool is the concatenation, in the order Lowercase,
\* Uppercase, Symbols, Numbers, of the alphabets of the enabled classes; its
\* size is the sum of their sizes and no character occurs twice.
C9_PoolOrder ==
    result.tag = "Ok" =>
        /\ dictionary = PoolOf(EnabledIn(calls), 1)
        /\ Len(dictionary) = SumSizes(EnabledIn(calls))
        /\ Cardinality(Chars(dictionary)) = Len(dictionary)
        /\ EnabledIn(calls) = PasswordContents => Len(dictionary) = 94

\* C9 witness: all four classes, enabled in the reverse of the pool's order.
C9_Witness ==
    /\ result.tag = "Ok"
    /\ Len(calls) = 4
    /\ calls[1].op = "with_numbers"
    /\ calls[2].op = "with_symbols"
    /\ calls[3].op = "with_uppercase_chars"
    /\ calls[4].op = "with_lowercase_chars"
    /\ Len(dictionary) = 94

\* C10: the configuration is the set of classes enabled somewhere in the
\* calls and the argument of the last with_length call (8 without one); a
\* configuration with a class enabled is valid exactly when that argument is
\* positive.
C10_ConfigurationFromCalls ==
    /\ contents = EnabledIn(calls)
    /\ length = (IF LastLength(calls) = 0 THEN None ELSE Some(LastLength(calls)))
    /\ (pc = "Consumed" /\ EnabledIn(calls) # {})
          => (result.tag = "Ok" <=> LastLength(calls) > 0)

\* C10 witness: a class enabled twice, then with_length(0) overridden by a
\* positive with_length, and a password generated.
C10_Witness ==
    /\ result.tag = "Ok"
    /\ Len(calls) = 4
    /\ calls[1] = calls[2]
    /\ calls[1].op = "with_lowercase_chars"
    /\ calls[3] = Call("with_length", 0)
    /\ calls[4] = Call("with_length", MaxLen)
    /\ contents = {LOWERCASE}
    /\ length = Some(MaxLen)

====
